---- MODULE Spec2Model ----
(***************************************************************************)
(* Reminder scheduling and run-lifecycle engine of yume.                   *)
(*                                                                         *)
(* Times are integers: seconds of user-local wall-clock time, counted from *)
(* a Monday 00:00.  Every datetime the engine keeps carries USER_TZ, so    *)
(* comparisons are comparisons of wall-clock fields.                       *)
(*                                                                         *)
(* The scheduler is APScheduler's AsyncIOScheduler: everything runs on one *)
(* event loop, so a handler is atomic from one await to the next.          *)
(***************************************************************************)
EXTENDS Integers, Sequences, FiniteSets, TLC

VARIABLES
    now,                  \* wall clock, now_user_tz()
    started,              \* AIScheduler.scheduler.running
    jobs,                 \* the job store of AIScheduler.scheduler
    last_next_run,        \* AIScheduler.last_next_run
    collection,           \* SchedulerRunLogger.collection (scheduler_runs)
    next_uuid,            \* source of uuid.uuid4() values
    memories,             \* the memory store read by get_all_memories()
    running,              \* position of the running _execute_deferred_run
    calls,                \* history: number of schedule_deferred_run calls
    last_call,            \* history: time of the last schedule_deferred_run
    burst,                \* history: calls since the deferred timer last fired
    executions,           \* history: times at which the callback was run
    passes,               \* history: outcome of every finished decision pass
    since_fire,           \* history: run ids scheduled since the last fire
    skipped,              \* history: deferred runs the scheduler skipped
    decision,             \* history: inputs and choice of the last arbitration
    edges,                \* history: status changes made by logger writes
    fired,                \* history: the reminder firings
    cancel_returns,       \* history: results of cancel_memory_reminder
    janitor_runs,         \* history: outcomes of the janitor runs
    queried,              \* history: results of get_next_memory_reminder
    chat_messages,        \* ChatMessageManager.collection (chat_messages)
    saves                 \* history: the save_message calls

vars == <<now, started, jobs, last_next_run, collection, next_uuid, memories,
          running, calls, last_call, burst, executions, passes, since_fire,
          skipped, decision, edges, fired, cancel_returns, janitor_runs,
          queried, chat_messages, saves>>

----------------------------------------------------------------------------
(* Bounds of the finite model *)

MaxCalls == 3
MaxRuns == 3
MaxDecisions == 1
MaxCancels == 1
MaxJanitorRuns == 2
MaxQueries == 1
MaxSaves == 3

(* Program constants *)

DeferredDelay == 60
MinLead == 900
NearbyThreshold == 900
FallbackOffset == 3600
JanitorInterval == 43200
max_instances == 1

TimeStep == 30

memory_reminder_job_id == "memory_reminder_job"
memory_janitor_job_id == "memory_janitor_job"
deferred_run_job_id == "deferred_ai_run_job"

None == -1

----------------------------------------------------------------------------
(* Values *)

Text(tag, of, items) == [tag |-> tag, of |-> of, items |-> items]

NoText == Text("", "", <<>>)

NextRun(next_run_time, reason, topic) ==
    [next_run_time |-> next_run_time, reason |-> reason, topic |-> topic]

NoNextRun == NextRun(None, NoText, NoText)

Job(id, run_date, run_reason, topic, run_id) ==
    [id |-> id, run_date |-> run_date, run_reason |-> run_reason,
     topic |-> topic, run_id |-> run_id]

NoJob == Job("", None, NoText, NoText, None)

SchedulerRunLog(id, scheduled_time, reason, topic, t) ==
    [id |-> id, scheduled_time |-> scheduled_time,
     actual_execution_time |-> None, reason |-> reason, topic |-> topic,
     status |-> "scheduled", error_message |-> "",
     execution_duration_ms |-> None, created_at |-> t, updated_at |-> t]

----------------------------------------------------------------------------
(* components/timezone_utils.py *)

\* dt.replace(tzinfo=USER_TZ): the wall-clock fields are kept, the offset of
\* the input is dropped.  A datetime from outside is [wall, tz].
\* mutant: astimezone(USER_TZ), a UTC time is shifted by the offset
to_user_tz_astimezone(dt) == IF dt.tz = "UTC" THEN dt.wall + 3600 ELSE dt.wall

to_user_tz(dt) == dt.wall

----------------------------------------------------------------------------
(* The job store: scheduler.get_job / remove_job / add_job *)

get_job(J, id) ==
    IF \E j \in J : j.id = id THEN CHOOSE j \in J : j.id = id ELSE NoJob

remove_job(J, id) == {j \in J : j.id # id}

\* add_job(..., replace_existing=True)
add_job(J, job) == {j \in J : j.id # job.id} \cup {job}

Armed(J, id) == {j \in J : j.id = id}

\* the earliest run_date in the job store; None when it is empty
NextDeadline(J) ==
    IF J = {} THEN None
    ELSE LET d == {j.run_date : j \in J} IN CHOOSE m \in d : \A x \in d : m <= x

----------------------------------------------------------------------------
(* services/scheduler_run_logger.py; ok = the datastore write succeeds *)

\* mutant: the filter names the wrong status
cancel_previous_scheduled_runs_wrong_status(C, t, ok) ==
    IF ok
    THEN [i \in DOMAIN C |->
            IF C[i].status = "executing"
            THEN [C[i] EXCEPT !.status = "cancelled", !.updated_at = t]
            ELSE C[i]]
    ELSE C

\* mutant: the update stamps updated_at on every row
cancel_previous_scheduled_runs_touch_all(C, t, ok) ==
    IF ok
    THEN [i \in DOMAIN C |->
            IF C[i].status = "scheduled"
            THEN [C[i] EXCEPT !.status = "cancelled", !.updated_at = t]
            ELSE [C[i] EXCEPT !.updated_at = t]]
    ELSE C

cancel_previous_scheduled_runs(C, t, ok) ==
    IF ok
    THEN [i \in DOMAIN C |->
            IF C[i].status = "scheduled"
            THEN [C[i] EXCEPT !.status = "cancelled", !.updated_at = t]
            ELSE C[i]]
    ELSE C

\* what cancel_previous_scheduled_runs returns: result.modified_count of
\* the update_many, the number of rows matching the filter (each of them is
\* modified, its status was scheduled), and 0 when the write raised
modified_count(C, ok) ==
    IF ok
    THEN Cardinality({i \in DOMAIN C : C[i].status = "scheduled"})
    ELSE 0

\* insert_one; when the write fails the exception is re-raised (line 151)
log_scheduled_run(C, run_id, scheduled_time, reason, topic, t, ok) ==
    IF ok
    THEN Append(C, SchedulerRunLog(run_id, scheduled_time, reason, topic, t))
    ELSE C

\* mutant: a filter that matches nothing falls back to the first row
FindOne_first(C, run_id) ==
    IF \E i \in DOMAIN C : C[i].id = run_id
    THEN CHOOSE i \in DOMAIN C :
            C[i].id = run_id /\ \A k \in DOMAIN C : C[k].id = run_id => i <= k
    ELSE IF C = <<>> THEN 0 ELSE 1

\* find_one_and_update({"id": run_id}, ...): the first row with that id
FindOne(C, run_id) ==
    IF \E i \in DOMAIN C : C[i].id = run_id
    THEN CHOOSE i \in DOMAIN C :
            C[i].id = run_id /\ \A k \in DOMAIN C : C[k].id = run_id => i <= k
    ELSE 0

\* mutant: the update stamps the time but leaves the status
log_execution_start_no_status(C, run_id, t, ok) ==
    LET i == FindOne(C, run_id) IN
    IF ok /\ i # 0
    THEN [C EXCEPT ![i] = [@ EXCEPT !.actual_execution_time = t,
                                    !.updated_at = t]]
    ELSE C

log_execution_start(C, run_id, t, ok) ==
    LET i == FindOne(C, run_id) IN
    IF ok /\ i # 0
    THEN [C EXCEPT ![i] = [@ EXCEPT !.status = "executing",
                                    !.actual_execution_time = t,
                                    !.updated_at = t]]
    ELSE C

log_execution_completion(C, run_id, duration_ms, t, ok) ==
    LET i == FindOne(C, run_id) IN
    IF ok /\ i # 0
    THEN [C EXCEPT ![i] = [@ EXCEPT !.status = "completed",
                                    !.execution_duration_ms = duration_ms,
                                    !.updated_at = t]]
    ELSE C

log_execution_failure(C, run_id, error_message, duration_ms, t, ok) ==
    LET i == FindOne(C, run_id) IN
    IF ok /\ i # 0
    THEN [C EXCEPT ![i] = [@ EXCEPT !.status = "failed",
                                    !.error_message = error_message,
                                    !.execution_duration_ms = duration_ms,
                                    !.updated_at = t]]
    ELSE C

\* what log_execution_start, log_execution_completion and
\* log_execution_failure return: the updated row, NoRow for None.  C is the
\* collection before the call and C2 the collection after it.
NoRow == SchedulerRunLog(None, None, NoText, NoText, None)

Returned(C, run_id, C2, ok) ==
    IF ok /\ FindOne(C, run_id) # 0 THEN C2[FindOne(C, run_id)] ELSE NoRow

\* the status changes a logger write makes: the pairs (before, after) of
\* the rows whose status differs between C and C2
Edges(C, C2) ==
    {<<C[i].status, C2[i].status>> :
        i \in {k \in DOMAIN C : C[k].status # C2[k].status}}

----------------------------------------------------------------------------
(* services/ai_scheduler.py: installing a NextRun *)

\* mutant: the job is added without removing or replacing the armed one
_schedule_memory_reminder_no_replace(J, date_time, reason, topic, run_id) ==
    J \cup {Job(memory_reminder_job_id, date_time, reason, topic, run_id)}

_schedule_memory_reminder(J, date_time, run_reason, topic, run_id) ==
    LET J1 == IF get_job(J, memory_reminder_job_id) # NoJob
              THEN remove_job(J, memory_reminder_job_id)
              ELSE J
    IN add_job(J1, Job(memory_reminder_job_id, date_time, run_reason, topic,
                       run_id))

\* mutant: the call of cancel_previous_scheduled_runs is missing
schedule_next_run_no_cancel(J, C, next_run, run_id, t, okCancel, okInsert) ==
    LET C2 == log_scheduled_run(C, run_id, next_run.next_run_time,
                                next_run.reason, next_run.topic, t, okInsert)
    IN [last_next_run |-> next_run,
        collection |-> C2,
        jobs |-> IF okInsert
                 THEN _schedule_memory_reminder(J, next_run.next_run_time,
                                                next_run.reason,
                                                next_run.topic, run_id)
                 ELSE J,
        raised |-> ~okInsert]

\* mutant: the new row is written before the old ones are cancelled
schedule_next_run_cancel_last(J, C, next_run, run_id, t, okCancel, okI) ==
    LET C1 == log_scheduled_run(C, run_id, next_run.next_run_time,
                                next_run.reason, next_run.topic, t, okI)
        C2 == cancel_previous_scheduled_runs(C1, t, okCancel)
    IN [last_next_run |-> next_run,
        collection |-> C2,
        jobs |-> IF okI
                 THEN _schedule_memory_reminder(J, next_run.next_run_time,
                                                next_run.reason,
                                                next_run.topic, run_id)
                 ELSE J,
        raised |-> ~okI]

\* schedule_next_run(next_run).  The result holds the three pieces of state
\* it writes and whether it raised: log_scheduled_run re-raises a failed
\* insert, and then line 282 is not reached.
schedule_next_run(J, C, next_run, run_id, t, okCancel, okInsert) ==
    LET C1 == cancel_previous_scheduled_runs(C, t, okCancel)
        C2 == log_scheduled_run(C1, run_id, next_run.next_run_time,
                                next_run.reason, next_run.topic, t, okInsert)
    IN [last_next_run |-> next_run,
        collection |-> C2,
        jobs |-> IF okInsert
                 THEN _schedule_memory_reminder(J, next_run.next_run_time,
                                                next_run.reason,
                                                next_run.topic, run_id)
                 ELSE J,
        raised |-> ~okInsert]

----------------------------------------------------------------------------
(* aiagents/ai_scheduler.py *)

\* mutant: the offset is taken in the wrong unit
_create_fallback_schedule_minutes(reason, t, offset) ==
    NextRun(t + offset \div 60, Text("", reason, <<>>),
            Text("", "Fallback schedule", <<>>))

_create_fallback_schedule(reason, t, offset) ==
    NextRun(t + offset, Text("", reason, <<>>),
            Text("", "Fallback schedule", <<>>))

NoMemoriesReason == "No memories found - scheduling hourly check"
AgentErrorReason == "Agent error occurred - scheduling fallback reminder"

\* the words of the two literal reasons; any other text is one word
Words(s) ==
    CASE s = AgentErrorReason ->
           <<"Agent", "error", "occurred", "-", "scheduling", "fallback",
             "reminder">>
      [] s = NoMemoriesReason ->
           <<"No", "memories", "found", "-", "scheduling", "hourly", "check">>
      [] OTHER -> <<s>>

\* the phrase (a sequence of words) occurs in the text s
Contains(s, phrase) ==
    \E i \in 1..(Len(Words(s)) - Len(phrase) + 1) :
        SubSeq(Words(s), i, i + Len(phrase) - 1) = phrase

(* Memory entries.  The store is a dict, read in insertion order: a         *)
(* sequence of entries.  time_value is a sequence of characters,            *)
(* days_of_week a sequence of strings; <<>> stands for None or empty.       *)

Datetime(wall, tz) == [wall |-> wall, tz |-> tz]

NoDatetime == Datetime(None, "")

ReminderOptions(datetime_value, time_value, days_of_week) ==
    [present |-> TRUE, datetime_value |-> datetime_value,
     time_value |-> time_value, days_of_week |-> days_of_week]

NoOptions ==
    [present |-> FALSE, datetime_value |-> NoDatetime, time_value |-> <<>>,
     days_of_week |-> <<>>]

Entry(id, type, content, ro) ==
    [id |-> id, type |-> type, content |-> content, reminder_options |-> ro]

Day == 86400

date(t) == t \div Day

\* date.weekday(): Monday = 0 ... Sunday = 6
weekday(d) == d % 7

\* datetime.combine(date, t)
combine(d, t) == d * Day + t

Digits == {"0", "1", "2", "3", "4", "5", "6", "7", "8", "9"}

DigitValue(c) ==
    CASE c = "0" -> 0 [] c = "1" -> 1 [] c = "2" -> 2 [] c = "3" -> 3
      [] c = "4" -> 4 [] c = "5" -> 5 [] c = "6" -> 6 [] c = "7" -> 7
      [] c = "8" -> 8 [] c = "9" -> 9

\* one or two digits, read as a number; None for anything else
Number(s) ==
    IF Len(s) = 1 /\ s[1] \in Digits THEN DigitValue(s[1])
    ELSE IF Len(s) = 2 /\ s[1] \in Digits /\ s[2] \in Digits
         THEN 10 * DigitValue(s[1]) + DigitValue(s[2])
         ELSE None

\* datetime.strptime(time_str, "%H:%M").time() as seconds of the day; None
\* where strptime raises ValueError
\* mutant: a field out of range wraps around
time_lenient(h, m) ==
    IF h = None \/ m = None THEN None
    ELSE (h % 24) * 3600 + (m % 60) * 60

time(h, m) ==
    IF h = None \/ m = None \/ h > 23 \/ m > 59 THEN None
    ELSE h * 3600 + m * 60

strptime(s) ==
    LET colons == {i \in DOMAIN s : s[i] = ":"} IN
    IF Cardinality(colons) # 1 THEN None
    ELSE LET p == CHOOSE i \in colons : TRUE
         IN time(Number(SubSeq(s, 1, p - 1)), Number(SubSeq(s, p + 1, Len(s))))

wk_map ==
    [monday |-> 0, tuesday |-> 1, wednesday |-> 2, thursday |-> 3,
     friday |-> 4, saturday |-> 5, sunday |-> 6]

\* d.strip().lower() on the day strings the model uses
strip_lower(d) ==
    CASE d \in {"Monday", " monday ", "MONDAY"} -> "monday"
      [] d \in {"Tuesday", " tuesday "} -> "tuesday"
      [] d \in {"Wednesday"} -> "wednesday"
      [] d \in {"Sunday", "SUNDAY ", "sunday "} -> "sunday"
      [] d \in {"Mon"} -> "mon"
      [] OTHER -> d

RECURSIVE target_weekdays(_)
target_weekdays(days) ==
    IF days = <<>> THEN <<>>
    ELSE LET key == strip_lower(Head(days)) IN
         (IF key \in DOMAIN wk_map THEN <<wk_map[key]>> ELSE <<>>)
           \o target_weekdays(Tail(days))

Candidate(dt, mid, content) == [dt |-> dt, mid |-> mid, content |-> content]

\* mutant: an occurrence inside the lead window is moved to the next day
RECURSIVE WeekdayCandidates_next_day(_, _, _, _, _)
WeekdayCandidates_next_day(wds, t, today, min_future_time, entry) ==
    IF wds = <<>> THEN <<>>
    ELSE LET days_ahead == (Head(wds) - weekday(today) + 7) % 7
             this_week == combine(today + days_ahead, t)
             candidate_dt == IF this_week < min_future_time
                             THEN combine(today + days_ahead + 1, t)
                             ELSE this_week
         IN (IF candidate_dt >= min_future_time
             THEN <<Candidate(candidate_dt, entry.id, entry.content)>>
             ELSE <<>>)
              \o WeekdayCandidates_next_day(Tail(wds), t, today,
                                            min_future_time, entry)

\* lines 496-507: one candidate for each target weekday
RECURSIVE WeekdayCandidates(_, _, _, _, _)
WeekdayCandidates(wds, t, today, min_future_time, entry) ==
    IF wds = <<>> THEN <<>>
    ELSE LET days_ahead == (Head(wds) - weekday(today) + 7) % 7
             this_week == combine(today + days_ahead, t)
             candidate_dt == IF this_week < min_future_time
                             THEN combine(today + days_ahead + 7, t)
                             ELSE this_week
         IN (IF candidate_dt >= min_future_time
             THEN <<Candidate(candidate_dt, entry.id, entry.content)>>
             ELSE <<>>)
              \o WeekdayCandidates(Tail(wds), t, today, min_future_time,
                                   entry)

\* lines 476-518: a recurring reminder whose time_value parsed to t
RecurringCandidates(entry, t, today, min_future_time) ==
    IF t = None THEN <<>>
    ELSE IF Len(entry.reminder_options.days_of_week) > 0
    THEN WeekdayCandidates(
            target_weekdays(entry.reminder_options.days_of_week), t, today,
            min_future_time, entry)
    ELSE LET first == combine(today, t)
             candidate_dt == IF first < min_future_time THEN first + Day
                             ELSE first
         IN IF candidate_dt >= min_future_time
            THEN <<Candidate(candidate_dt, entry.id, entry.content)>>
            ELSE <<>>

\* mutant: a one-time reminder qualifies only after the lead time
EntryCandidates_strict(entry, t_now) ==
    LET min_future_time == t_now + MinLead
        ro == entry.reminder_options
    IN
    IF entry.type # "reminder" THEN <<>>
    ELSE IF ~ro.present THEN <<>>
    ELSE IF ro.datetime_value # NoDatetime
    THEN LET dt_local == to_user_tz(ro.datetime_value) IN
         IF dt_local > min_future_time
         THEN <<Candidate(dt_local, entry.id, entry.content)>>
         ELSE <<>>
    ELSE IF ro.time_value = <<>> THEN <<>>
    ELSE RecurringCandidates(entry, strptime(ro.time_value), date(t_now),
                             min_future_time)

\* lines 447-518: the candidates one memory entry contributes
EntryCandidates(entry, t_now) ==
    LET min_future_time == t_now + MinLead
        ro == entry.reminder_options
    IN
    IF entry.type # "reminder" THEN <<>>
    ELSE IF ~ro.present THEN <<>>
    ELSE IF ro.datetime_value # NoDatetime
    THEN LET dt_local == to_user_tz(ro.datetime_value) IN
         IF dt_local >= min_future_time
         THEN <<Candidate(dt_local, entry.id, entry.content)>>
         ELSE <<>>
    ELSE IF ro.time_value = <<>> THEN <<>>
    ELSE RecurringCandidates(entry, strptime(ro.time_value), date(t_now),
                             min_future_time)

RECURSIVE AllCandidates(_, _)
AllCandidates(mem, t_now) ==
    IF mem = <<>> THEN <<>>
    ELSE EntryCandidates(Head(mem), t_now) \o AllCandidates(Tail(mem), t_now)

\* list.sort(key=lambda x: x[0]): stable, by time only
RECURSIVE InsertByTime(_, _)
InsertByTime(sorted, c) ==
    IF sorted = <<>> THEN <<c>>
    ELSE IF c.dt < Head(sorted).dt THEN <<c>> \o sorted
         ELSE <<Head(sorted)>> \o InsertByTime(Tail(sorted), c)

RECURSIVE SortByTime(_)
SortByTime(cs) ==
    IF cs = <<>> THEN <<>>
    ELSE InsertByTime(SortByTime(SubSeq(cs, 1, Len(cs) - 1)), cs[Len(cs)])

Abs(x) == IF x < 0 THEN -x ELSE x

\* mutant: every candidate counts as nearby
Nearby_all(cs, chosen_dt) == cs

RECURSIVE Nearby(_, _)
Nearby(cs, chosen_dt) ==
    IF cs = <<>> THEN <<>>
    ELSE (IF Abs(Head(cs).dt - chosen_dt) <= NearbyThreshold
          THEN <<Head(cs)>> ELSE <<>>) \o Nearby(Tail(cs), chosen_dt)

DeterministicTag == "Deterministic reminder chosen"

\* _determine_next_run_from_reminders(memories); NoNextRun for None
\* lines 531-544: the NextRun built from the chosen candidate and the
\* candidates near it
Combined(chosen, nearby) ==
    IF Len(nearby) > 1
    THEN NextRun(chosen.dt,
                 Text(DeterministicTag, "",
                      [i \in DOMAIN nearby |->
                         [content |-> nearby[i].content,
                          at |-> nearby[i].dt]]),
                 Text("", "", [i \in DOMAIN nearby |-> nearby[i].content]))
    ELSE NextRun(chosen.dt, Text(DeterministicTag, chosen.content, <<>>),
                 Text("", chosen.content, <<>>))

\* lines 520-529: the earliest of the sorted candidates
Earliest(candidates) ==
    IF candidates = <<>> THEN NoNextRun
    ELSE Combined(candidates[1], Nearby(candidates, candidates[1].dt))

_determine_next_run_from_reminders(mem, t_now) ==
    Earliest(SortByTime(AllCandidates(mem, t_now)))

(* The AI suggestion: _run_ai_analysis returns a NextRun whose time may     *)
(* carry any timezone, or raises.                                           *)

AIResult(next_run_time, reason, topic) ==
    [raised |-> FALSE, next_run_time |-> next_run_time,
     reason |-> Text("", reason, <<>>), topic |-> Text("", topic, <<>>)]

AIRaised ==
    [raised |-> TRUE, next_run_time |-> NoDatetime, reason |-> NoText,
     topic |-> NoText]

AdjustedTag == "Adjusted from AI suggestion (minimum 15min delay applied)"

\* mutant: the suggested time is passed on as it is
_validate_and_adjust_time_no_clamp(next_run_result, t_now) ==
    NextRun(to_user_tz(next_run_result.next_run_time),
            next_run_result.reason, next_run_result.topic)

_validate_and_adjust_time(next_run_result, t_now) ==
    LET min_future_time == t_now + MinLead
        next_run_time == to_user_tz(next_run_result.next_run_time)
    IN IF next_run_time < min_future_time
       THEN NextRun(min_future_time,
                    Text(AdjustedTag, next_run_result.reason.of, <<>>),
                    next_run_result.topic)
       ELSE NextRun(next_run_time, next_run_result.reason,
                    next_run_result.topic)

\* lines 194-211: the choice between the two candidates
\* mutant: the comparison is the wrong way round
ChooseNextRun_later(deterministic, validated_ai, t_now) ==
    IF deterministic = NoNextRun
    THEN NextRun(validated_ai.next_run_time, validated_ai.reason,
                 validated_ai.topic)
    ELSE IF validated_ai = NoNextRun THEN deterministic
    ELSE LET delta_ai == validated_ai.next_run_time - t_now
             delta_det == deterministic.next_run_time - t_now
         IN IF delta_det > delta_ai
            THEN deterministic
            ELSE NextRun(validated_ai.next_run_time, validated_ai.reason,
                         validated_ai.topic)

ChooseNextRun(deterministic, validated_ai, t_now) ==
    IF deterministic = NoNextRun
    THEN NextRun(validated_ai.next_run_time, validated_ai.reason,
                 validated_ai.topic)
    ELSE IF validated_ai = NoNextRun THEN deterministic
    ELSE LET delta_ai == validated_ai.next_run_time - t_now
             delta_det == deterministic.next_run_time - t_now
         IN IF delta_det < delta_ai
            THEN deterministic
            ELSE NextRun(validated_ai.next_run_time, validated_ai.reason,
                         validated_ai.topic)

----------------------------------------------------------------------------
(* services/ai_scheduler.py: the janitor and the deferred-run slot *)

\* _schedule_memory_janitor: IntervalTrigger(hours=12), first run one
\* interval after the job is added
_schedule_memory_janitor(J, t) ==
    LET J1 == IF get_job(J, memory_janitor_job_id) # NoJob
              THEN remove_job(J, memory_janitor_job_id)
              ELSE J
    IN add_job(J1, Job(memory_janitor_job_id, t + JanitorInterval, NoText,
                       NoText, None))

\* mutant: the trigger yields the time that has just fired
get_next_fire_time_same(job) == job.run_date

\* IntervalTrigger(hours=12).get_next_fire_time(previous_fire_time, now)
get_next_fire_time(job) == job.run_date + JanitorInterval

\* mutant: the debounce timer is armed in the reminder slot
schedule_deferred_run_reminder_slot(J, t) ==
    LET J1 == IF get_job(J, memory_reminder_job_id) # NoJob
              THEN remove_job(J, memory_reminder_job_id)
              ELSE J
    IN add_job(J1, Job(memory_reminder_job_id, t + DeferredDelay, NoText,
                       NoText, None))

schedule_deferred_run(J, t) ==
    LET J1 == IF get_job(J, deferred_run_job_id) # NoJob
              THEN remove_job(J, deferred_run_job_id)
              ELSE J
    IN add_job(J1, Job(deferred_run_job_id, t + DeferredDelay, NoText, NoText,
                       None))

\* mutant: the cancel empties the whole job store
cancel_memory_reminder_all(J) ==
    [jobs |-> {}, result |-> get_job(J, memory_reminder_job_id) # NoJob]

\* cancel_memory_reminder(): the job store it leaves and what it returns
cancel_memory_reminder(J) ==
    IF get_job(J, memory_reminder_job_id) # NoJob
    THEN [jobs |-> remove_job(J, memory_reminder_job_id), result |-> TRUE]
    ELSE [jobs |-> J, result |-> FALSE]

\* mutant: only the armed job is looked at, None without one
get_next_memory_reminder_job_only(J, last) ==
    LET job == get_job(J, memory_reminder_job_id) IN
    IF job # NoJob
    THEN NextRun(job.run_date, job.run_reason, job.topic)
    ELSE NoNextRun

\* get_next_memory_reminder(): the armed job's time with the reason and
\* topic of last_next_run when their times agree, else with the job's own;
\* without an armed job, last_next_run
get_next_memory_reminder(J, last) ==
    LET job == get_job(J, memory_reminder_job_id) IN
    IF job # NoJob
    THEN IF last # NoNextRun /\ Abs(last.next_run_time - job.run_date) < 1
         THEN NextRun(job.run_date, last.reason, last.topic)
         ELSE NextRun(job.run_date, job.run_reason, job.topic)
    ELSE last

\* number of _execute_deferred_run coroutines in flight
Instances == IF running = "idle" THEN 0 ELSE 1

Due(id) == started /\ \E j \in Armed(jobs, id) : j.run_date <= now

----------------------------------------------------------------------------
(* The memory stores the model draws from *)

OneTime(id, content, wall) ==
    Entry(id, "reminder", content,
          ReminderOptions(Datetime(wall, "user"), <<>>, <<>>))

Recurring(id, content, time_value, days_of_week) ==
    Entry(id, "reminder", content,
          ReminderOptions(NoDatetime, time_value, days_of_week))

Observation(id, content) == Entry(id, "observation", content, NoOptions)

T0930 == 9 * 3600 + 30 * 60

MemoryStores == {<<>>, <<OneTime(1, "A", T0930 + 1200)>>}

\* Monday 09:30 and Monday 23:50
StartTimes == {T0930, 23 * 3600 + 50 * 60}

HHMM_0900 == <<"0", "9", ":", "0", "0">>
HHMM_0005 == <<"0", "0", ":", "0", "5">>
HHMM_0000 == <<"0", "0", ":", "0", "0">>
HHMM_0945 == <<"0", "9", ":", "4", "5">>
HHMM_2405 == <<"2", "4", ":", "0", "5">>
HHMM_0900_no_colon == <<"0", "9", "0", "0">>

\* a reminder with neither datetime_value nor time_value
NoSchedule(id, content) ==
    Entry(id, "reminder", content, ReminderOptions(NoDatetime, <<>>, <<>>))

DecideStores ==
    { <<Observation(1, "likes tea")>>,
      <<OneTime(1, "A", T0930 + 1200)>>,
      <<OneTime(1, "A", T0930 + 600), Observation(2, "likes tea")>>,
      <<OneTime(2, "B", T0930 + 1800), OneTime(1, "A", T0930 + 1200)>>,
      <<OneTime(1, "A", T0930 + 1200), OneTime(2, "B", T0930 + 1800),
        OneTime(3, "G", T0930 + 3000)>>,
      <<OneTime(1, "A", T0930 + 2100), OneTime(2, "B", T0930 + 1200)>>,
      <<OneTime(2, "B", T0930 + 1200), OneTime(1, "A", T0930 + 1200)>>,
      <<NoSchedule(1, "N"), OneTime(2, "A", T0930 + 1200)>>,
      <<Recurring(1, "X", HHMM_2405, <<>>), Recurring(2, "D", HHMM_0005, <<>>),
        Recurring(3, "Z", HHMM_0900_no_colon, <<"Monday">>)>>,
      <<Recurring(1, "Y", HHMM_0900, <<"Mon">>),
        Recurring(2, "K", HHMM_0900, <<"MONDAY">>)>>,
      <<Recurring(1, "C", HHMM_0900, <<"Monday">>)>>,
      <<Recurring(1, "E", HHMM_0005, <<"Mon", " tuesday ", "SUNDAY ">>)>>,
      <<Recurring(1, "F", HHMM_0900, <<"Wednesday", "MONDAY">>)>>,
      <<Recurring(1, "D", HHMM_0005, <<>>)>>,
      <<Recurring(1, "H", HHMM_0000, <<>>)>>,
      <<OneTime(1, "I", T0930 + 900)>>,
      <<OneTime(1, "J", T0930 + 899)>>,
      <<Recurring(1, "L", HHMM_0945, <<>>)>>,
      <<Recurring(1, "M", HHMM_0945, <<"Monday">>)>>,
      <<Recurring(1, "P", HHMM_0945, <<"Monday", " monday ">>)>> }

\* what the AI call can do: raise, or suggest a time around the lead time
\* and around the deterministic candidate
Suggestions(det, t_now) ==
    LET walls == {t_now - FallbackOffset, t_now + 60, t_now + MinLead,
                  t_now + 2 * FallbackOffset}
                   \cup (IF det = NoNextRun THEN {}
                         ELSE {det.next_run_time - 300, det.next_run_time,
                               det.next_run_time + 300})
    IN {AIRaised} \cup
       {AIResult(Datetime(w, tz), "ai reason", "ai topic") :
          w \in walls, tz \in {"UTC", "user"}}

AIOutcomes(mem, t_now) ==
    Suggestions(_determine_next_run_from_reminders(mem, t_now), t_now)

Decision(ai, validated_ai, deterministic, chosen) ==
    [ai |-> ai, validated_ai |-> validated_ai,
     deterministic |-> deterministic, chosen |-> chosen]

NoDecision == Decision(AIRaised, NoNextRun, NoNextRun, NoNextRun)

----------------------------------------------------------------------------
Init ==
    /\ now = 0
    /\ started = FALSE
    /\ jobs = {}
    /\ last_next_run = NoNextRun
    /\ collection = <<>>
    /\ next_uuid = 1
    /\ memories \in MemoryStores
    /\ running = "idle"
    /\ calls = 0
    /\ last_call = None
    /\ burst = 0
    /\ executions = <<>>
    /\ passes = <<>>
    /\ since_fire = <<>>
    /\ skipped = 0
    /\ decision = NoDecision
    /\ edges = {}
    /\ fired = <<>>
    /\ cancel_returns = <<>>
    /\ janitor_runs = <<>>
    /\ queried = <<>>
    /\ chat_messages = <<>>
    /\ saves = <<>>

\* AIScheduler.start()
Start ==
    /\ ~started
    /\ started' = TRUE
    /\ jobs' = _schedule_memory_janitor(jobs, now)
    /\ UNCHANGED <<now, last_next_run, collection, next_uuid, memories,
                   running, calls, last_call, burst, executions, passes,
                   since_fire, skipped, decision, edges, fired,
                   cancel_returns, janitor_runs,
                   queried, chat_messages, saves>>

\* determine_next_run_by_memory(): called at startup and by the engine after
\* a chat message, a geofence event, a memory update or a day-plan change
Trigger ==
    /\ started
    /\ calls < MaxCalls
    /\ jobs' = schedule_deferred_run(jobs, now)
    /\ calls' = calls + 1
    /\ last_call' = now
    /\ burst' = burst + 1
    /\ UNCHANGED <<now, started, last_next_run, collection, next_uuid,
                   memories, running, executions, passes, since_fire, skipped,
                   decision, edges, fired, cancel_returns, janitor_runs,
                   queried, chat_messages, saves>>

\* the memory store is written by the memory manager, outside the engine
MemoryUpdate ==
    /\ \E m \in MemoryStores : m # memories /\ memories' = m
    /\ UNCHANGED <<now, started, jobs, last_next_run, collection, next_uuid,
                   running, calls, last_call, burst, executions, passes,
                   since_fire, skipped, decision, edges, fired,
                   cancel_returns, janitor_runs,
                   queried, chat_messages, saves>>

\* time passes inside a debounce window
AdvanceStep ==
    /\ started
    /\ Armed(jobs, deferred_run_job_id) # {}
    /\ now + TimeStep <= NextDeadline(jobs)
    /\ now' = now + TimeStep
    /\ UNCHANGED <<started, jobs, last_next_run, collection, next_uuid,
                   memories, running, calls, last_call, burst, executions,
                   passes, since_fire, skipped, decision, edges, fired,
                   cancel_returns, janitor_runs,
                   queried, chat_messages, saves>>

\* time passes until the next timer is due; the runs of the model end
\* before the janitor's run number MaxJanitorRuns + 1
AdvanceToDeadline ==
    /\ started
    /\ NextDeadline(jobs) > now
    /\ \/ NextDeadline(jobs) < get_job(jobs, memory_janitor_job_id).run_date
       \/ Len(janitor_runs) < MaxJanitorRuns
    /\ now' = NextDeadline(jobs)
    /\ UNCHANGED <<started, jobs, last_next_run, collection, next_uuid,
                   memories, running, calls, last_call, burst, executions,
                   passes, since_fire, skipped, decision, edges, fired,
                   cancel_returns, janitor_runs,
                   queried, chat_messages, saves>>

\* The janitor timer fires: the scheduler gives the job its next run time
\* and starts _trigger_memory_janitor, which catches whatever
\* run_memory_janitor or handle_memory_janitor_result raise (lines 84-100).
JanitorFire ==
    /\ Due(memory_janitor_job_id)
    /\ Len(janitor_runs) < MaxJanitorRuns
    /\ jobs' = add_job(jobs,
                       [get_job(jobs, memory_janitor_job_id) EXCEPT
                          !.run_date = get_next_fire_time(
                                          get_job(jobs,
                                                  memory_janitor_job_id))])
    /\ \E outcome \in {"completed", "raised"} :
          janitor_runs' = Append(janitor_runs, outcome)
    /\ UNCHANGED <<now, started, last_next_run, collection, next_uuid,
                   memories, running, calls, last_call, burst, executions,
                   passes, since_fire, skipped, decision, edges, fired,
                   cancel_returns,
                   queried, chat_messages, saves>>

\* The deferred timer fires while _execute_deferred_run is still running:
\* the job has max_instances = 1, the scheduler skips the run and removes
\* the one-shot job.
DeferredFireSkipped ==
    /\ Due(deferred_run_job_id)
    /\ Instances >= max_instances
    /\ jobs' = remove_job(jobs, deferred_run_job_id)
    /\ burst' = 0
    /\ skipped' = skipped + 1
    /\ UNCHANGED <<now, started, last_next_run, collection, next_uuid,
                   memories, running, calls, last_call, executions, passes,
                   since_fire, decision, edges, fired, cancel_returns,
                   janitor_runs,
                   queried, chat_messages, saves>>

\* _execute_deferred_run -> _determine_next_run_by_memory_impl, lines
\* 121-127: no memories, the hourly fallback is scheduled
DeferredFireNoMemories(F) ==
    /\ Due(deferred_run_job_id)
    /\ Instances < max_instances
    /\ memories = <<>>
    /\ next_uuid <= MaxRuns
    /\ \E okCancel \in F, okInsert \in F :
         LET r == schedule_next_run(
                     remove_job(jobs, deferred_run_job_id), collection,
                     _create_fallback_schedule(NoMemoriesReason, now,
                                               FallbackOffset),
                     next_uuid, now, okCancel, okInsert)
         IN /\ jobs' = r.jobs
            /\ collection' = r.collection
            /\ last_next_run' = r.last_next_run
            /\ passes' = Append(passes, IF r.raised THEN "raised"
                                        ELSE "no_memories")
            /\ since_fire' = IF r.raised THEN since_fire
                             ELSE Append(since_fire, next_uuid)
            /\ edges' = edges \cup Edges(collection, r.collection)
    /\ next_uuid' = next_uuid + 1
    /\ burst' = 0
    /\ executions' = Append(executions, now)
    /\ UNCHANGED <<now, started, memories, running, calls, last_call, skipped,
                   decision, fired, cancel_returns, janitor_runs,
                   queried, chat_messages, saves>>

\* lines 121-158: memories exist, the pass suspends on
\* await get_current_geofence_for_user()
DeferredFireCollect ==
    /\ Due(deferred_run_job_id)
    /\ Instances < max_instances
    /\ memories # <<>>
    /\ jobs' = remove_job(jobs, deferred_run_job_id)
    /\ running' = "geofence"
    /\ burst' = 0
    /\ executions' = Append(executions, now)
    /\ UNCHANGED <<now, started, last_next_run, collection, next_uuid,
                   memories, calls, last_call, passes, since_fire, skipped,
                   decision, edges, fired, cancel_returns, janitor_runs,
                   queried, chat_messages, saves>>

\* lines 158-174: the geofence lookup returns or raises (caught, line 159),
\* the day plans are read, and line 174 calls
\* AIScheduler.get_recent_executed_reminders, which AIScheduler does not
\* define: AttributeError, outside every try of the pass, caught and logged
\* by _execute_deferred_run (line 453).  Nothing is scheduled.
PassResume ==
    /\ running = "geofence"
    /\ running' = "idle"
    /\ passes' = Append(passes, "attribute_error")
    /\ UNCHANGED <<now, started, jobs, last_next_run, collection, next_uuid,
                   memories, calls, last_call, burst, executions, since_fire,
                   skipped, decision, edges, fired, cancel_returns,
                   janitor_runs,
                   queried, chat_messages, saves>>

\* lines 330-355: the call of handle_memory_reminder raises, the body of the
\* engine callback is not entered, the except logs the failure and the
\* handler returns None to the scheduler
Fired(run_id, executing, okStart, okFailure) ==
    LET failed == log_execution_failure(executing, run_id, "TypeError", 0,
                                        now, okFailure)
    IN /\ collection' = failed
       /\ edges' = edges \cup Edges(collection, executing)
                          \cup Edges(executing, failed)
       /\ fired' = Append(fired, [run_id |-> run_id, okStart |-> okStart,
                                   okFailure |-> okFailure,
                                   entered |-> FALSE, raised |-> FALSE])

\* _trigger_memory_reminder(run_reason, topic, run_id, details).  Line 330
\* calls handle_memory_reminder(ai_input, details=details), but
\* handle_memory_reminder(event_details) takes no such keyword: the call
\* raises TypeError before a coroutine exists, so the handler never
\* suspends and goes from log_execution_start straight to
\* log_execution_failure.
ReminderFire(F) ==
    /\ Due(memory_reminder_job_id)
    /\ \E okStart \in F, okFailure \in F :
         Fired(get_job(jobs, memory_reminder_job_id).run_id,
               log_execution_start(collection,
                                   get_job(jobs, memory_reminder_job_id).run_id,
                                   now, okStart),
               okStart, okFailure)
    /\ jobs' = remove_job(jobs, memory_reminder_job_id)
    /\ since_fire' = <<>>
    /\ UNCHANGED <<now, started, last_next_run, next_uuid, memories, running,
                   calls, last_call, burst, executions, passes, skipped,
                   decision, cancel_returns, janitor_runs,
                   queried, chat_messages, saves>>

\* lines 194-212: one of the two candidates is chosen and scheduled
Arbitrate(J, C, ai, validated_ai, deterministic, t, run_id, okC, okI) ==
    LET chosen == ChooseNextRun(deterministic, validated_ai, t) IN
    schedule_next_run(J, C, chosen, run_id, t, okC, okI)
      @@ [next_uuid |-> run_id + 1,
          scheduled |-> IF okI THEN <<run_id>> ELSE <<>>,
          decision |-> Decision(ai, validated_ai, deterministic, chosen)]

\* lines 186-212, the body of the try: the AI call returns or raises, the
\* suggestion is validated, the reminders are resolved, one of the two is
\* chosen and scheduled.  The result holds the state the block leaves, the
\* next unused run id, the run ids it logged, and whether it raised.  The
\* decision records what the resolver yields for the memories also when
\* the AI call raised and line 192 was not reached.
TryBlock(J, C, last, mem, ai, t, run_id, okCancel, okInsert) ==
    IF ai.raised
    THEN [jobs |-> J, collection |-> C, last_next_run |-> last,
          raised |-> TRUE, next_uuid |-> run_id, scheduled |-> <<>>,
          decision |-> Decision(ai, NoNextRun,
                                _determine_next_run_from_reminders(mem, t),
                                NoNextRun)]
    ELSE Arbitrate(J, C, ai, _validate_and_adjust_time(ai, t),
                   _determine_next_run_from_reminders(mem, t), t, run_id,
                   okCancel, okInsert)

\* mutant: the except swallows the exception and schedules nothing
ExceptBlock_silent(try, t, okCancel, okInsert) ==
    try @@ [outcome |-> IF try.raised THEN "agent_error" ELSE "chosen"]

\* lines 214-220, the except: any exception of the try, also one raised by
\* schedule_next_run itself, leads to the hourly fallback
ExceptBlock(try, t, okCancel, okInsert) ==
    IF ~try.raised THEN try @@ [outcome |-> "chosen"]
    ELSE schedule_next_run(try.jobs, try.collection,
                           _create_fallback_schedule(AgentErrorReason, t,
                                                     FallbackOffset),
                           try.next_uuid, t, okCancel, okInsert)
         @@ [outcome |-> IF okInsert THEN "agent_error" ELSE "raised",
             next_uuid |-> try.next_uuid + 1,
             scheduled |-> try.scheduled
                             \o (IF okInsert THEN <<try.next_uuid>>
                                 ELSE <<>>),
             decision |-> try.decision]

\* the state a decision block leaves behind
PassReturns(r) ==
    /\ jobs' = r.jobs
    /\ collection' = r.collection
    /\ last_next_run' = r.last_next_run
    /\ next_uuid' = r.next_uuid
    /\ passes' = Append(passes, r.outcome)
    /\ since_fire' = since_fire \o r.scheduled
    /\ edges' = edges \cup Edges(collection, r.collection)
    /\ decision' = r.decision

\* _determine_next_run_by_memory_impl, lines 185-220
PassDecide(F) ==
    /\ started
    /\ running = "idle"
    /\ memories # <<>>
    /\ Len(passes) < MaxDecisions
    /\ next_uuid < MaxRuns
    /\ \E ai \in AIOutcomes(memories, now),
          okCancel \in F, okInsert \in F, okCancel2 \in F, okInsert2 \in F :
         PassReturns(ExceptBlock(TryBlock(jobs, collection, last_next_run,
                                          memories, ai, now, next_uuid,
                                          okCancel, okInsert),
                                 now, okCancel2, okInsert2))
    /\ UNCHANGED <<now, started, memories, running, calls, last_call, burst,
                   executions, skipped, fired, cancel_returns, janitor_runs,
                   queried, chat_messages, saves>>

Reliable == {TRUE}

Next ==
    \/ Start
    \/ Trigger
    \/ MemoryUpdate
    \/ AdvanceStep
    \/ AdvanceToDeadline
    \/ DeferredFireSkipped
    \/ DeferredFireNoMemories(Reliable)
    \/ DeferredFireCollect
    \/ PassResume
    \/ ReminderFire(Reliable)
    \/ JanitorFire

Spec == Init /\ [][Next]_vars

(* The same program with cancel_memory_reminder called from outside: the    *)
(* method is public and nothing in the engine calls it.                     *)

CancelMemoryReminder ==
    /\ Len(cancel_returns) < MaxCancels
    /\ jobs' = cancel_memory_reminder(jobs).jobs
    /\ cancel_returns' = Append(cancel_returns,
                                cancel_memory_reminder(jobs).result)
    /\ UNCHANGED <<now, started, last_next_run, collection, next_uuid,
                   memories, running, calls, last_call, burst, executions,
                   passes, since_fire, skipped, decision, edges, fired,
                   janitor_runs,
                   queried, chat_messages, saves>>

\* get_next_memory_reminder(), called by the API (get_scheduled_tasks) and
\* by the pass: it reads the job store and last_next_run
GetNextMemoryReminder ==
    /\ Len(queried) < MaxQueries
    /\ queried' = Append(queried,
                         [result |-> get_next_memory_reminder(jobs,
                                                              last_next_run),
                          armed |-> Armed(jobs, memory_reminder_job_id) # {}])
    /\ UNCHANGED <<now, started, jobs, last_next_run, collection, next_uuid,
                   memories, running, calls, last_call, burst, executions,
                   passes, since_fire, skipped, decision, edges, fired,
                   cancel_returns, janitor_runs, chat_messages, saves>>

NextCancel ==
    \/ Start
    \/ Trigger
    \/ MemoryUpdate
    \/ AdvanceStep
    \/ AdvanceToDeadline
    \/ DeferredFireSkipped
    \/ DeferredFireNoMemories(Reliable)
    \/ DeferredFireCollect
    \/ PassResume
    \/ ReminderFire(Reliable)
    \/ CancelMemoryReminder
    \/ JanitorFire

SpecCancel == Init /\ [][NextCancel]_vars

(* The same program over a datastore whose writes may fail: every logger    *)
(* write of a step succeeds or raises inside the logger.                    *)

Faulty == BOOLEAN

NextFault ==
    \/ Start
    \/ Trigger
    \/ MemoryUpdate
    \/ AdvanceStep
    \/ AdvanceToDeadline
    \/ DeferredFireSkipped
    \/ DeferredFireNoMemories(Faulty)
    \/ DeferredFireCollect
    \/ PassResume
    \/ ReminderFire(Faulty)
    \/ JanitorFire

SpecFault == Init /\ [][NextFault]_vars

(* The arbitration block of the pass (lines 185-220) on its own: the        *)
(* scheduler has just been started at one of StartTimes, the block is       *)
(* entered with the memories of one of DecideStores, and the timers it      *)
(* arms fire.                                                               *)

InitDecide ==
    /\ now \in StartTimes
    /\ started = TRUE
    /\ jobs = _schedule_memory_janitor({}, now)
    /\ last_next_run = NoNextRun
    /\ collection = <<>>
    /\ next_uuid = 1
    /\ memories \in DecideStores
    /\ running = "idle"
    /\ calls = 0
    /\ last_call = None
    /\ burst = 0
    /\ executions = <<>>
    /\ passes = <<>>
    /\ since_fire = <<>>
    /\ skipped = 0
    /\ decision = NoDecision
    /\ edges = {}
    /\ fired = <<>>
    /\ cancel_returns = <<>>
    /\ janitor_runs = <<>>
    /\ queried = <<>>
    /\ chat_messages = <<>>
    /\ saves = <<>>

NextDecide ==
    \/ PassDecide(Reliable)
    \/ AdvanceToDeadline
    \/ ReminderFire(Reliable)
    \/ JanitorFire

SpecDecide == InitDecide /\ [][NextDecide]_vars

(* The arbitration block with the public methods get_next_memory_reminder *)
(* and cancel_memory_reminder called from outside, between the installs   *)
(* and the firings.                                                        *)

QueryStores ==
    { <<OneTime(2, "B", T0930 + 1800), OneTime(1, "A", T0930 + 1200)>> }

InitQuery == InitDecide /\ memories \in QueryStores

NextQuery ==
    \/ PassDecide(Reliable)
    \/ AdvanceToDeadline
    \/ ReminderFire(Reliable)
    \/ JanitorFire
    \/ CancelMemoryReminder
    \/ GetNextMemoryReminder

SpecQuery == InitQuery /\ [][NextQuery]_vars

----------------------------------------------------------------------------
(* services/chat_message_manager.py *)

ChatMessage(message_id, sender, message, timestamp) ==
    [message_id |-> message_id, sender |-> sender, message |-> message,
     timestamp |-> timestamp]

\* mutant: the update is $set, a stored document is overwritten
update_one_set(C, message_id, doc) ==
    IF \E i \in DOMAIN C : C[i].message_id = message_id
    THEN [collection |-> [i \in DOMAIN C |->
                            IF C[i].message_id = message_id THEN doc
                            ELSE C[i]],
          upserted |-> FALSE]
    ELSE [collection |-> Append(C, doc), upserted |-> TRUE]

\* collection.update_one({"message_id": message_id},
\* {"$setOnInsert": doc}, upsert=True): a matching document is left as it
\* is, without one doc is inserted; upserted tells which
update_one(C, message_id, doc) ==
    IF \E i \in DOMAIN C : C[i].message_id = message_id
    THEN [collection |-> C, upserted |-> FALSE]
    ELSE [collection |-> Append(C, doc), upserted |-> TRUE]

\* save_message(message_id, sender, message, timestamp): the collection it
\* leaves and what it returns
save_message(C, message_id, sender, message, timestamp) ==
    [collection |->
        update_one(C, message_id,
                   ChatMessage(message_id, sender, message,
                               timestamp)).collection,
     result |->
        update_one(C, message_id,
                   ChatMessage(message_id, sender, message,
                               timestamp)).upserted]

MessageIds == {"$event_1", "$event_2", "$event_3"}
Messages == {"Hello, world!", "Duplicate test"}
Sender == "@user:matrix.org"
Timestamp == "2025-01-01T09:30:00"

\* ISO timestamps of one format and zone, in the order in which the
\* datastore sorts them as strings, which is their order in time
TimestampOrder ==
    <<Timestamp, "2025-01-01T09:31:00", "2025-01-01T09:32:00">>

Timestamps == {TimestampOrder[i] : i \in DOMAIN TimestampOrder}

\* the place of a timestamp in the sort order of the field
Rank(ts) == CHOOSE i \in DOMAIN TimestampOrder : TimestampOrder[i] = ts

\* save_message is called with the id, the text and the timestamp of a
\* message
SaveMessage ==
    /\ Len(saves) < MaxSaves
    /\ \E id \in MessageIds, m \in Messages, ts \in Timestamps :
          /\ chat_messages' =
                save_message(chat_messages, id, Sender, m, ts).collection
          /\ saves' =
                Append(saves,
                       [message_id |-> id, message |-> m, timestamp |-> ts,
                        result |-> save_message(chat_messages, id, Sender, m,
                                                ts).result])
    /\ UNCHANGED <<now, started, jobs, last_next_run, collection, next_uuid,
                   memories, running, calls, last_call, burst, executions,
                   passes, since_fire, skipped, decision, edges, fired,
                   cancel_returns, janitor_runs, queried>>

InitChat == Init /\ memories = <<>>

NextChat == SaveMessage

SpecChat == InitChat /\ [][NextChat]_vars

----------------------------------------------------------------------------
(* Properties *)

Rows == DOMAIN collection

WithStatus(st) == {i \in Rows : collection[i].status = st}

Active == WithStatus("scheduled") \cup WithStatus("executing")

ReminderJobs == Armed(jobs, memory_reminder_job_id)

PassFinished == Len(passes') = Len(passes) + 1

ScheduleNextRunCalled == next_uuid' # next_uuid

\* C1: when a decision pass finishes, a reminder timer is armed, whatever
\* the outcome of the pass.
C1_PassArmsReminder ==
    [][PassFinished => Armed(jobs', memory_reminder_job_id) # {}]_vars

\* C2: in every reachable state at most one row of scheduler_runs has
\* status scheduled or executing.
C2_AtMostOneActive == Cardinality(Active) <= 1

C2_Witness ==
    /\ WithStatus("failed") # {}
    /\ WithStatus("cancelled") # {}
    /\ WithStatus("scheduled") # {}

\* C3: after schedule_next_run calls with no timer fire in between, the row
\* of the last call is the only scheduled row and the rows of the earlier
\* calls are cancelled.
C3_LastScheduledOthersCancelled ==
    since_fire # <<>> =>
        LET last == since_fire[Len(since_fire)] IN
        /\ \A i \in Rows :
              collection[i].status = "scheduled" <=> collection[i].id = last
        /\ \E i \in Rows : collection[i].id = last
        /\ \A k \in 1..(Len(since_fire) - 1) :
              \E i \in Rows : /\ collection[i].id = since_fire[k]
                               /\ collection[i].status = "cancelled"

C3_Witness == Len(since_fire) >= 2 /\ WithStatus("failed") # {}

\* C4 as stated: log_scheduled_run, called while other rows are scheduled,
\* leaves the row it inserts as the only scheduled row.
C4_LogScheduledRunCancels ==
    LET C2 == log_scheduled_run(collection, next_uuid, now, NoText, NoText,
                                now, TRUE)
    IN \A i \in DOMAIN C2 :
          C2[i].status = "scheduled" => C2[i].id = next_uuid

\* C4 amended: schedule_next_run cancels every scheduled row through
\* cancel_previous_scheduled_runs and then inserts the new row in scheduled
\* through log_scheduled_run; the rows that were not scheduled are
\* unchanged, and the new row is the only scheduled row afterwards.
C4_ScheduleCancelsThenInserts ==
    [][ScheduleNextRunCalled =>
        LET n == Len(collection) IN
        /\ Len(collection') = n + 1
        /\ collection'[n + 1].id = next_uuid
        /\ collection'[n + 1].status = "scheduled"
        /\ \A i \in 1..n :
              IF collection[i].status = "scheduled"
              THEN collection'[i] = [collection[i] EXCEPT
                                       !.status = "cancelled",
                                       !.updated_at = now]
              ELSE collection'[i] = collection[i]]_vars

C4_Witness ==
    \E i, k \in Rows : /\ i < k
                       /\ collection[i].status = "cancelled"
                       /\ collection[i].updated_at > collection[i].created_at
                       /\ collection[k].status = "scheduled"

\* C5: at most one timer is armed in the reminder slot, and when
\* schedule_next_run(r) returns, the armed timer carries r's time, reason
\* and topic and the run id of the row logged for r.
C5_SingleReminderTimer ==
    /\ [](Cardinality(ReminderJobs) <= 1)
    /\ [][ScheduleNextRunCalled =>
          LET r == last_next_run'
              n == Len(collection')
          IN /\ Armed(jobs', memory_reminder_job_id) =
                  {Job(memory_reminder_job_id, r.next_run_time, r.reason,
                       r.topic, next_uuid)}
             /\ collection'[n].id = next_uuid
             /\ collection'[n].scheduled_time = r.next_run_time
             /\ collection'[n].reason = r.reason
             /\ collection'[n].topic = r.topic]_vars

\* a second schedule_next_run has replaced a timer that was still armed
C5_Witness ==
    /\ Len(since_fire) >= 2
    /\ \E j \in ReminderJobs : j.run_id = since_fire[Len(since_fire)]

Quiescent == running = "idle" /\ Armed(jobs, deferred_run_job_id) = {}

\* C6: when a deferred run comes while an earlier pass is still suspended,
\* the system ends with exactly one armed reminder timer, installed by a
\* pass that began after the last request.
C6_OverlapConverges ==
    (skipped > 0 /\ Quiescent) =>
        /\ Cardinality(ReminderJobs) = 1
        /\ executions[Len(executions)] >= last_call + DeferredDelay

\* C7: the calls of a burst lead to exactly one execution of the callback,
\* 60 seconds after the last call.
C7_DebounceCollapse ==
    [][(burst > 0 /\ burst' = 0) =>
        /\ Len(executions') = Len(executions) + 1
        /\ executions'[Len(executions')] = last_call + DeferredDelay]_vars

BothCandidates ==
    /\ decision # NoDecision
    /\ ~decision.ai.raised
    /\ decision.deterministic # NoNextRun

\* the NextRun of the last schedule_next_run and the row logged for it
Installed(r) ==
    /\ last_next_run = r
    /\ collection # <<>>
    /\ LET row == collection[Len(collection)] IN
         /\ row.scheduled_time = r.next_run_time
         /\ row.reason = r.reason
         /\ row.topic = r.topic

\* C8: when the deterministic candidate and the validated AI candidate have
\* the same time, the deterministic candidate is the one installed.
C8_TieChoosesDeterministic ==
    (BothCandidates /\ decision.validated_ai.next_run_time
                         = decision.deterministic.next_run_time)
        => Installed(decision.deterministic)

\* C9: when both candidates exist and their times differ, the one with the
\* earlier time is installed: the deterministic candidate when it is
\* strictly sooner, otherwise the validated AI candidate.
C9_EarlierCandidateInstalled ==
    (BothCandidates /\ decision.validated_ai.next_run_time
                         # decision.deterministic.next_run_time)
        => IF decision.deterministic.next_run_time
                < decision.validated_ai.next_run_time
           THEN Installed(decision.deterministic)
           ELSE Installed(decision.validated_ai)

C9_Witness ==
    /\ BothCandidates
    /\ decision.deterministic.next_run_time
         < decision.validated_ai.next_run_time
    /\ Installed(decision.deterministic)
    /\ \E j \in ReminderJobs :
          j.run_date = decision.deterministic.next_run_time

\* C10: when a deterministic candidate exists, the installed run is not
\* later than it, whatever the AI call did, and it is the deterministic
\* candidate when the AI call failed.
C10_NeverLaterThanDeterministic ==
    (decision # NoDecision /\ decision.deterministic # NoNextRun)
        => /\ last_next_run.next_run_time
                <= decision.deterministic.next_run_time
           /\ decision.ai.raised => Installed(decision.deterministic)

\* the last schedule_next_run of the step installed r: it is the stored
\* NextRun, the one row added is its row in scheduled and is the only
\* scheduled row, and the one reminder timer carries it
InstalledByStep(r) ==
    LET n == Len(collection') IN
    /\ last_next_run' = r
    /\ n = Len(collection) + 1
    /\ collection'[n].status = "scheduled"
    /\ collection'[n].scheduled_time = r.next_run_time
    /\ collection'[n].reason = r.reason
    /\ collection'[n].topic = r.topic
    /\ \A i \in 1..(n - 1) : collection'[i].status # "scheduled"
    /\ Armed(jobs', memory_reminder_job_id) =
          {Job(memory_reminder_job_id, r.next_run_time, r.reason, r.topic,
               collection'[n].id)}

\* C11: when the AI call raises in a pass with memories of which no
\* reminder qualifies, the pass installs exactly one NextRun, at now + 1
\* hour, with a reason that contains "fallback", and logs exactly one new
\* row, in scheduled.
C11_AgentErrorFallback ==
    [][(PassFinished /\ decision'.ai.raised
          /\ decision'.deterministic = NoNextRun)
        => /\ last_next_run'.next_run_time = now + 3600
           /\ Contains(last_next_run'.reason.of, <<"fallback">>)
           /\ InstalledByStep(last_next_run')]_vars

C11_Witness ==
    /\ passes # <<>>
    /\ passes[Len(passes)] = "agent_error"
    /\ decision.ai.raised
    /\ decision.deterministic = NoNextRun
    /\ \E i \in DOMAIN memories : memories[i].type = "reminder"
    /\ collection # <<>>
    /\ collection[Len(collection)].status = "scheduled"
    /\ collection[Len(collection)].reason.of = AgentErrorReason
    /\ ReminderJobs # {}

\* C12: a pass that reads an empty memory store does not make the AI call
\* and installs exactly one NextRun, at exactly now + 1 hour, with a reason
\* that contains "No memories found".
C12_NoMemoriesFallback ==
    [][(PassFinished /\ running = "idle" /\ memories = <<>>)
        => /\ last_next_run'.next_run_time = now + 3600
           /\ Contains(last_next_run'.reason.of, <<"No", "memories", "found">>)
           /\ InstalledByStep(last_next_run')
           /\ decision' = decision]_vars

C12_Witness ==
    /\ memories = <<>>
    /\ passes # <<>>
    /\ passes[Len(passes)] = "no_memories"
    /\ last_next_run.reason.of = NoMemoriesReason
    /\ \E j \in ReminderJobs :
          /\ j.run_date = last_next_run.next_run_time
          /\ j.run_date = executions[Len(executions)] + 3600

\* C13: the NextRun the validator returns and the NextRun the resolver
\* returns are never earlier than 15 minutes after the now of the pass.
C13_MinimumLead ==
    [][PassFinished
        => /\ decision'.validated_ai # NoNextRun
                => decision'.validated_ai.next_run_time >= now + 900
           /\ decision'.deterministic # NoNextRun
                => decision'.deterministic.next_run_time >= now + 900]_vars

\* a suggestion inside the lead window was moved, next to a resolved reminder
C13_Witness ==
    /\ BothCandidates
    /\ decision.validated_ai.reason.tag = AdjustedTag
    /\ decision.ai.next_run_time.wall < decision.validated_ai.next_run_time
    /\ decision.deterministic.next_run_time
          >= decision.validated_ai.next_run_time

\* C14: a logger write changes the status of a row only from scheduled to
\* executing, from executing to completed or failed, or from scheduled to
\* cancelled; a completed, failed or cancelled row keeps its status.
C14_LifecycleEdges ==
    edges \subseteq {<<"scheduled", "executing">>, <<"executing", "completed">>,
                     <<"executing", "failed">>, <<"scheduled", "cancelled">>}

C14_Witness ==
    /\ <<"scheduled", "executing">> \in edges
    /\ <<"executing", "failed">> \in edges
    /\ <<"scheduled", "cancelled">> \in edges
    /\ WithStatus("cancelled") # {}
    /\ WithStatus("failed") # {}

\* run ids that no row of the collection carries
MissingIds == {m \in 0..(MaxRuns + 1) : \A i \in Rows : collection[i].id # m}

C16_WriteFailureStillSchedules ==
    [][ScheduleNextRunCalled
        => /\ passes'[Len(passes')] # "raised"
           /\ \E j \in Armed(jobs', memory_reminder_job_id) :
                 /\ j.run_id = next_uuid
                 /\ j.run_date = last_next_run'.next_run_time]_vars

\* C17: a reminder firing in which a logger write failed still entered the
\* engine callback and did not raise into the scheduler.
C17_WriteFailureStillInvokes ==
    \A i \in DOMAIN fired :
        (~fired[i].okStart \/ ~fired[i].okFailure)
            => fired[i].entered /\ ~fired[i].raised

Cancelled == Len(cancel_returns') = Len(cancel_returns) + 1

\* C18: cancel_memory_reminder returns whether a reminder timer was armed,
\* leaves the reminder slot empty and changes nothing else: the other
\* timers, the rows and last_next_run stay, and last_next_run is what
\* get_next_memory_reminder returns afterwards; a scheduled row becomes
\* cancelled only in a step that calls schedule_next_run.
C18_BareCancelFrame ==
    /\ [][Cancelled
           => /\ cancel_returns'[Len(cancel_returns')] = (ReminderJobs # {})
              /\ jobs' = jobs \ ReminderJobs
              /\ collection' = collection
              /\ last_next_run' = last_next_run
              /\ get_next_memory_reminder(jobs', last_next_run')
                    = last_next_run
              /\ UNCHANGED <<now, started, next_uuid, memories, running,
                             edges, fired>>]_vars
    /\ [][(\E i \in Rows : /\ collection[i].status = "scheduled"
                            /\ collection'[i].status = "cancelled")
           => ScheduleNextRunCalled]_vars

\* a cancel has disarmed the timer of a run whose row is still scheduled,
\* next to a timer of another slot
C18_Witness ==
    /\ \E i \in DOMAIN cancel_returns : cancel_returns[i]
    /\ ReminderJobs = {}
    /\ WithStatus("scheduled") # {}
    /\ last_next_run # NoNextRun
    /\ Armed(jobs, memory_janitor_job_id) # {}

JanitorJobs == Armed(jobs, memory_janitor_job_id)

JanitorFired == Len(janitor_runs') = Len(janitor_runs) + 1

\* C19: once the scheduler is started exactly one janitor timer is armed;
\* a janitor firing, whether the run completes or raises, moves it 12
\* hours on; no other step, in particular none that installs, cancels or
\* fires the reminder timer or the deferred timer, removes or re-times it.
C19_JanitorStaysArmed ==
    /\ [](started => Cardinality(JanitorJobs) = 1)
    /\ [][JanitorFired
           => \E j \in JanitorJobs :
                 Armed(jobs', memory_janitor_job_id) =
                    {[j EXCEPT !.run_date = j.run_date + 43200]}]_vars
    /\ [][(started /\ ~JanitorFired)
           => Armed(jobs', memory_janitor_job_id) = JanitorJobs]_vars

\* the janitor has run twice, once raising, after a reminder timer was
\* installed, cancelled and fired, and is armed for its third run
C19_Witness ==
    /\ Len(janitor_runs) = 2
    /\ \E i \in DOMAIN janitor_runs : janitor_runs[i] = "raised"
    /\ \E j \in JanitorJobs : j.run_date = 3 * 43200
    /\ fired # <<>>
    /\ \E i \in DOMAIN cancel_returns : cancel_returns[i]
    /\ Len(executions) >= 2

\* the weekdays a days_of_week list names in a recognized way
Recognized(days) ==
    {wk_map[strip_lower(days[i])] :
        i \in {k \in DOMAIN days : strip_lower(days[k]) \in DOMAIN wk_map}}

\* the instants at time t on a weekday of wds, from today on, that are not
\* earlier than t_now + 15 minutes
Occurrences(t, wds, t_now) ==
    {combine(d, t) : d \in {x \in date(t_now)..(date(t_now) + 14) :
                               /\ weekday(x) \in wds
                               /\ combine(x, t) >= t_now + 900}}

\* the store is one recurring reminder with a parsable time and at least
\* one recognized weekday
WeeklyOnly(mem) ==
    /\ Len(mem) = 1
    /\ mem[1].type = "reminder"
    /\ mem[1].reminder_options.datetime_value = NoDatetime
    /\ mem[1].reminder_options.time_value # <<>>
    /\ strptime(mem[1].reminder_options.time_value) # None
    /\ Recognized(mem[1].reminder_options.days_of_week) # {}

\* C20: for a recurring reminder with days_of_week the resolver returns the
\* earliest instant at time_value on a recognized requested weekday that is
\* not earlier than now + 15 minutes; an occurrence of this week inside
\* the lead window counts 7 days later.
C20_WeeklyEarliest ==
    [][(PassFinished /\ WeeklyOnly(memories))
        => LET ro == memories[1].reminder_options
               occ == Occurrences(strptime(ro.time_value),
                                  Recognized(ro.days_of_week), now)
           IN /\ decision'.deterministic # NoNextRun
              /\ decision'.deterministic.next_run_time \in occ
              /\ \A o \in occ :
                    decision'.deterministic.next_run_time <= o]_vars

\* Monday 09:00 every week, resolved on the first Monday at 09:30: the
\* Monday after
C20_Witness ==
    /\ memories = <<Recurring(1, "C", HHMM_0900, <<"Monday">>)>>
    /\ Len(passes) = 1
    /\ collection # <<>>
    /\ collection[1].created_at = T0930
    /\ decision.deterministic.next_run_time = 7 * Day + 9 * 3600

\* the earliest time among the candidates cs
MinTime(cs) ==
    CHOOSE m \in {cs[i].dt : i \in DOMAIN cs} :
        \A i \in DOMAIN cs : m <= cs[i].dt

\* the candidates of cs not later than 15 minutes after the earliest
Window(cs) == {i \in DOMAIN cs : cs[i].dt <= MinTime(cs) + 900}

\* the topic lists the contents of the candidates w of cs, each as often
\* as it occurs among them, in some order
TopicLists(topic, cs, w) ==
    /\ Len(topic.items) = Cardinality(w)
    /\ \A i \in w :
          Cardinality({k \in DOMAIN topic.items :
                         topic.items[k] = cs[i].content})
            = Cardinality({k \in w : cs[k].content = cs[i].content})

\* the reason lists the candidates w of cs with their times
ReasonLists(reason, cs, w) ==
    /\ Len(reason.items) = Cardinality(w)
    /\ \A i \in w :
          Cardinality({k \in DOMAIN reason.items :
                         reason.items[k]
                           = [content |-> cs[i].content, at |-> cs[i].dt]})
            = Cardinality({k \in w : /\ cs[k].content = cs[i].content
                                      /\ cs[k].dt = cs[i].dt})

\* r is the NextRun the claim describes for the candidates cs
MergedOf(r, cs) ==
    /\ r.next_run_time = MinTime(cs)
    /\ IF Cardinality(Window(cs)) > 1
       THEN /\ TopicLists(r.topic, cs, Window(cs))
            /\ ReasonLists(r.reason, cs, Window(cs))
       ELSE \E i \in Window(cs) :
               /\ r.topic = Text("", cs[i].content, <<>>)
               /\ r.reason.of = cs[i].content
               /\ r.reason.items = <<>>

\* C21: the resolver's NextRun has the earliest candidate time, and its
\* topic and reason list exactly the candidates not later than 15 minutes
\* after it; with one such candidate the topic is that reminder's content.
C21_MergeWindow ==
    [][(PassFinished /\ AllCandidates(memories, now) # <<>>)
        => MergedOf(decision'.deterministic,
                    AllCandidates(memories, now))]_vars

\* reminders at 09:50 and 10:00 are merged, the one at 10:20 is left out
C21_Witness ==
    /\ Len(memories) = 3
    /\ Len(passes) = 1
    /\ decision.deterministic.next_run_time = T0930 + 1200
    /\ decision.deterministic.topic.items = <<"A", "B">>
    /\ Len(decision.deterministic.reason.items) = 2

\* candidate a comes before candidate b by time, and by memory id when
\* their times are equal
Before(a, b) == a.dt < b.dt \/ (a.dt = b.dt /\ a.mid <= b.mid)

\* the candidates w of cs in the order of Before
ByTimeThenId(cs, w) ==
    CHOOSE f \in [1..Cardinality(w) -> w] :
        /\ \A a, b \in DOMAIN f : a # b => f[a] # f[b]
        /\ \A a, b \in DOMAIN f : a < b => Before(cs[f[a]], cs[f[b]])

\* the topic lists the candidates w of cs by time and then by memory id
ListedInOrder(topic, cs, w) ==
    topic.items = [k \in 1..Cardinality(w) |->
                     cs[ByTimeThenId(cs, w)[k]].content]

\* C22: in a merged NextRun the reminders are listed by occurrence time,
\* and reminders with the same occurrence time by memory id, whatever the
\* order in which the memory store returned them.
C22_MergedOrder ==
    [][(PassFinished /\ Len(decision'.deterministic.topic.items) > 1)
        => ListedInOrder(decision'.deterministic.topic,
                         AllCandidates(memories, now),
                         Window(AllCandidates(memories, now)))]_vars

\* the text is one or two digits up to 23, a colon, and one or two digits
\* up to 59: what the format %H:%M accepts
IsHHMM(s) ==
    \E p \in 2..3 :
        /\ Len(s) \in (p + 1)..(p + 2)
        /\ s[p] = ":"
        /\ \A i \in DOMAIN s \ {p} : s[i] \in Digits
        /\ Number(SubSeq(s, 1, p - 1)) <= 23
        /\ Number(SubSeq(s, p + 1, Len(s))) <= 59

\* the entry carries no usable schedule: neither datetime_value nor
\* time_value, a time_value that is not HH:MM, or days_of_week without a
\* recognized name
Skippable(entry) ==
    /\ entry.type = "reminder"
    /\ entry.reminder_options.present
    /\ entry.reminder_options.datetime_value = NoDatetime
    /\ \/ entry.reminder_options.time_value = <<>>
       \/ ~IsHHMM(entry.reminder_options.time_value)
       \/ /\ entry.reminder_options.days_of_week # <<>>
          /\ Recognized(entry.reminder_options.days_of_week) = {}

Without(mem, i) == SubSeq(mem, 1, i - 1) \o SubSeq(mem, i + 1, Len(mem))

\* str.lower() on the day strings the model uses
lower(d) ==
    CASE d \in {"Monday", "MONDAY"} -> "monday"
      [] d = " tuesday " -> " tuesday "
      [] d = "Tuesday" -> "tuesday"
      [] d = "Wednesday" -> "wednesday"
      [] d = "Sunday" -> "sunday"
      [] d = "SUNDAY " -> "sunday "
      [] d = "Mon" -> "mon"
      [] OTHER -> d

\* the store with every weekday name in lower case
LowerCased(mem) ==
    [i \in DOMAIN mem |->
       [mem[i] EXCEPT !.reminder_options.days_of_week =
                         [k \in DOMAIN @ |-> lower(@[k])]]]

\* C23: a reminder without datetime_value and time_value, with a
\* time_value that does not parse as HH:MM, or with only unrecognized
\* weekday names is skipped: the resolver returns what it returns for the
\* store without that entry.  Weekday names are matched whatever their
\* case: the resolver returns what it returns for the names in lower case.
C23_MalformedSkipped ==
    [][PassFinished
        => /\ \A i \in DOMAIN memories :
                 Skippable(memories[i])
                   => decision'.deterministic =
                        _determine_next_run_from_reminders(
                           Without(memories, i), now)
           /\ decision'.deterministic =
                 _determine_next_run_from_reminders(LowerCased(memories),
                                                    now)]_vars

\* between two entries with a time_value that does not parse, the daily
\* reminder is resolved
C23_Witness ==
    /\ Len(memories) = 3
    /\ Skippable(memories[1])
    /\ Skippable(memories[3])
    /\ Len(passes) = 1
    /\ decision.deterministic.topic = Text("", "D", <<>>)

Max(a, b) == IF a >= b THEN a ELSE b

\* C24: the validator returns the later of the suggested time, its
\* wall-clock fields read as user-local time, and now + 15 minutes; the
\* topic is the input topic; the reason is the input reason when the time
\* was not changed and carries the adjustment note exactly when the time
\* was raised to now + 15 minutes.
C24_ValidatorClamps ==
    [][(PassFinished /\ ~decision'.ai.raised)
        => /\ decision'.validated_ai.next_run_time
                 = Max(decision'.ai.next_run_time.wall, now + 900)
           /\ decision'.validated_ai.topic = decision'.ai.topic
           /\ IF decision'.ai.next_run_time.wall >= now + 900
              THEN decision'.validated_ai.reason = decision'.ai.reason
              ELSE /\ decision'.validated_ai.reason.tag = AdjustedTag
                   /\ decision'.validated_ai.reason.of
                         = decision'.ai.reason.of
                   /\ decision'.validated_ai.reason # decision'.ai.reason]_vars

\* a suggestion in UTC two hours ahead was passed on with its wall-clock
\* fields and its reason
C24_Witness ==
    /\ Len(passes) = 1
    /\ ~decision.ai.raised
    /\ decision.ai.next_run_time.tz = "UTC"
    /\ decision.ai.next_run_time.wall = collection[1].created_at + 7200
    /\ decision.validated_ai.next_run_time = decision.ai.next_run_time.wall
    /\ decision.validated_ai.reason = decision.ai.reason
    /\ decision.validated_ai.topic = Text("", "ai topic", <<>>)

\* The executed reminders AIScheduler holds.  __init__ (lines 28-38)
\* creates no such list, _trigger_memory_reminder (lines 313-355) appends
\* to none, and get_recent_executed_reminders, which line 174 of the pass
\* calls, is not defined: ExecutedReminder (lines 24-26) is never built.
executed_reminders == <<>>

\* C25: every reminder firing appends exactly one (executed_at, topic)
\* entry to the executed reminders, which lose an entry only by eviction
\* of the oldest: there are never more entries than firings, and after a
\* firing there is an entry.
C25_LedgerRecordsFirings ==
    /\ Len(executed_reminders) <= Len(fired)
    /\ fired # <<>> => executed_reminders # <<>>

Queried == Len(queried') = Len(queried) + 1

Saved == Len(saves') = Len(saves) + 1

Stored(id) == {i \in DOMAIN chat_messages : chat_messages[i].message_id = id}

\* C27: save_message with an id that no stored message carries stores the
\* message and returns True; with an id that is stored it returns False
\* and leaves the stored messages as they are; so every id is stored at
\* most once, however often it is saved.
C27_SaveMessageOnce ==
    /\ [][Saved
           => IF Stored(saves'[Len(saves')].message_id) = {}
              THEN /\ saves'[Len(saves')].result
                   /\ chat_messages' =
                         Append(chat_messages,
                                ChatMessage(saves'[Len(saves')].message_id,
                                            Sender,
                                            saves'[Len(saves')].message,
                                            saves'[Len(saves')].timestamp))
              ELSE /\ ~saves'[Len(saves')].result
                   /\ chat_messages' = chat_messages]_vars
    /\ [](\A id \in MessageIds : Cardinality(Stored(id)) <= 1)

\* an id was saved a second time with another text: one message with that
\* id is stored, with the first text
C27_Witness ==
    \E i, k \in DOMAIN saves :
        /\ i < k
        /\ saves[i].message_id = saves[k].message_id
        /\ saves[i].message # saves[k].message
        /\ saves[i].result
        /\ ~saves[k].result
        /\ \E j \in Stored(saves[i].message_id) :
              chat_messages[j].message = saves[i].message

\* the store is one recurring reminder with a time_value in HH:MM and no
\* days_of_week
DailyOnly(mem) ==
    /\ Len(mem) = 1
    /\ mem[1].type = "reminder"
    /\ mem[1].reminder_options.datetime_value = NoDatetime
    /\ IsHHMM(mem[1].reminder_options.time_value)
    /\ mem[1].reminder_options.days_of_week = <<>>

\* the instants at time t of a day, from today on, that are not earlier
\* than t_now + 15 minutes
DailyOccurrences(t, t_now) ==
    {combine(d, t) : d \in {x \in date(t_now)..(date(t_now) + 2) :
                               combine(x, t) >= t_now + 900}}

\* C28: for a daily recurring reminder the resolver always yields a
\* candidate, and it is the earliest instant at time_value of a day that is
\* not earlier than now + 15 minutes, also shortly before midnight.
C28_DailyEarliest ==
    [][(PassFinished /\ DailyOnly(memories))
        => /\ decision'.deterministic # NoNextRun
           /\ decision'.deterministic.next_run_time
                 \in DailyOccurrences(
                        strptime(memories[1].reminder_options.time_value),
                        now)
           /\ \A o \in DailyOccurrences(
                          strptime(memories[1].reminder_options.time_value),
                          now) :
                 decision'.deterministic.next_run_time <= o]_vars

\* the occurrence of a reminder computed for today: the datetime_value of
\* a one-time reminder, today at time_value for a daily reminder and for a
\* weekly reminder that names today's weekday; None otherwise
ComputedOccurrence(entry, t_now) ==
    IF entry.type # "reminder" \/ ~entry.reminder_options.present THEN None
    ELSE IF entry.reminder_options.datetime_value # NoDatetime
    THEN entry.reminder_options.datetime_value.wall
    ELSE IF ~IsHHMM(entry.reminder_options.time_value) THEN None
    ELSE IF entry.reminder_options.days_of_week = <<>>
            \/ weekday(date(t_now))
                  \in Recognized(entry.reminder_options.days_of_week)
    THEN combine(date(t_now), strptime(entry.reminder_options.time_value))
    ELSE None

IsOneTime(entry) ==
    /\ entry.type = "reminder"
    /\ entry.reminder_options.present
    /\ entry.reminder_options.datetime_value # NoDatetime

\* C29: a reminder whose computed occurrence is exactly now + 15 minutes
\* is a candidate at that instant, not moved on, be it one-time, weekly or
\* daily; a one-time reminder earlier than now + 15 minutes, by however
\* little, is no candidate.
C29_LeadBoundaryInclusive ==
    [][(PassFinished /\ Len(memories) = 1)
        => /\ ComputedOccurrence(memories[1], now) = now + 900
                => decision'.deterministic.next_run_time = now + 900
           /\ (IsOneTime(memories[1])
                 /\ ComputedOccurrence(memories[1], now) < now + 900)
                => decision'.deterministic = NoNextRun]_vars

\* Monday 09:45 every week, resolved on Monday at 09:30: today at 09:45
C29_Witness ==
    /\ memories = <<Recurring(1, "M", HHMM_0945, <<"Monday">>)>>
    /\ Len(passes) = 1
    /\ collection # <<>>
    /\ collection[1].created_at = T0930
    /\ decision.deterministic.next_run_time = T0930 + 900

ReminderFired == Len(fired') = Len(fired) + 1

\* C30: after a reminder firing a deferred decision is requested, by the
\* engine's handler or by its background memory update, so that the
\* reminder slot is armed again: the firing enters the engine's handler or
\* requests the deferred run itself.
C30_FireRequestsDecision ==
    [][ReminderFired
        => \/ fired'[Len(fired')].entered
           \/ /\ calls' = calls + 1
              /\ Armed(jobs', deferred_run_job_id) # {}]_vars

\* the row of the firing fired[i]
RowOf(i) == collection[FindOne(collection, fired[i].run_id)]

\* C31: a reminder firing moves its row to executing and stamps
\* actual_execution_time, and ends with the row completed, with a
\* duration, when the engine callback returned, or failed, with the error
\* message and a duration, when the callback ran and raised; nothing is
\* raised into the scheduler.
C31_FiringOutcome ==
    \A i \in DOMAIN fired :
        /\ ~fired[i].raised
        /\ FindOne(collection, fired[i].run_id) # 0
        /\ RowOf(i).actual_execution_time # None
        /\ RowOf(i).execution_duration_ms # None
        /\ RowOf(i).status \in {"completed", "failed"}
        /\ RowOf(i).status = "failed"
              => fired[i].entered /\ RowOf(i).error_message # ""

\* C32: whenever a reminder timer is armed, the run id it carries is the
\* id of a row in scheduled, also after schedule_next_run calls in which a
\* logger write failed.
C32_ArmedTimerHasScheduledRow ==
    \A j \in ReminderJobs :
        \E i \in Rows : /\ collection[i].id = j.run_id
                         /\ collection[i].status = "scheduled"

\* C33: a reminder firing never leaves its row in executing: when the
\* handler has ended, whether the callback returned or raised or a logger
\* write failed on the way, its row is not in executing any more: a row
\* that entered executing has gone on to completed or failed.  (Nothing but the handler of the firing updates an executing
\* row, so a row left in executing stays there.)
C33_NoRowLeftExecuting ==
    [][ReminderFired =>
          \A i \in DOMAIN collection' :
              collection'[i].id = fired'[Len(fired')].run_id
                  => collection'[i].status # "executing"]_vars

\* C34: no trigger is lost: when the system has come to rest (no pass in
\* flight, no deferred timer armed), the last call of schedule_deferred_run
\* has been followed by an execution of the callback that began after it,
\* also when the call arrived while an earlier execution was running.
C34_NoTriggerLost ==
    (Quiescent /\ calls > 0) =>
        /\ executions # <<>>
        /\ executions[Len(executions)] > last_call

\* C35: schedule_deferred_run, arming or re-arming the debounce timer,
\* leaves the reminder timer, the janitor timer, the stored NextRun and the
\* log rows as they were.
C35_DeferredRunFrame ==
    [][calls' = calls + 1 =>
          /\ Armed(jobs', memory_reminder_job_id) = ReminderJobs
          /\ Armed(jobs', memory_janitor_job_id) = JanitorJobs
          /\ last_next_run' = last_next_run
          /\ collection' = collection]_vars

\* a call has just re-armed the debounce timer while a reminder timer, the
\* janitor timer, a stored NextRun and a log row exist
C35_Witness ==
    /\ calls >= 2
    /\ last_call = now
    /\ Armed(jobs, deferred_run_job_id) # {}
    /\ ReminderJobs # {}
    /\ JanitorJobs # {}
    /\ last_next_run # NoNextRun
    /\ collection # <<>>

\* the rows of C that differ in C2
Changed(C, C2) == {i \in DOMAIN C : C2[i] # C[i]}

\* row r2 is row r cancelled at t, every other field as it was
CancelledAt(r, r2, t) ==
    /\ r2.status = "cancelled"
    /\ r2.updated_at = t
    /\ [r2 EXCEPT !.status = r.status, !.updated_at = r.updated_at] = r

\* C36: cancel_previous_scheduled_runs changes only rows in scheduled,
\* setting them to cancelled and stamping updated_at; rows in any other
\* status are unchanged, no row is added or removed, and the number
\* returned is the number of rows changed.
C36_CancelFrame ==
    \A ok \in BOOLEAN :
        /\ DOMAIN cancel_previous_scheduled_runs(collection, now + 1, ok)
              = DOMAIN collection
        /\ \A i \in Changed(collection,
                cancel_previous_scheduled_runs(collection, now + 1, ok)) :
              /\ collection[i].status = "scheduled"
              /\ CancelledAt(collection[i],
                    cancel_previous_scheduled_runs(collection, now + 1, ok)[i],
                    now + 1)
        /\ modified_count(collection, ok)
              = Cardinality(Changed(collection,
                  cancel_previous_scheduled_runs(collection, now + 1, ok)))
        /\ ok => WithStatus("scheduled")
                    \subseteq Changed(collection,
                        cancel_previous_scheduled_runs(collection, now + 1,
                                                       ok))

\* a collection with a row in scheduled beside rows that are cancelled and
\* failed
C36_Witness ==
    /\ WithStatus("scheduled") # {}
    /\ WithStatus("cancelled") # {}
    /\ WithStatus("failed") # {}

\* C37: the merged NextRun of the resolver lists each reminder memory at
\* most once, also when its days_of_week names the same weekday more than
\* once.  (The memories of a store have pairwise different contents, so a
\* content listed twice is a memory listed twice.)
C37_ListedOnce ==
    [][PassFinished =>
          \A i, j \in DOMAIN decision'.deterministic.topic.items :
              i # j => decision'.deterministic.topic.items[i]
                         # decision'.deterministic.topic.items[j]]_vars

Min(a, b) == IF a <= b THEN a ELSE b

\* MaxLimit bounds the limit that get_recent_messages is asked for
MaxLimit == 2

\* find().sort("timestamp", 1): the orders in which the cursor can yield
\* the documents of C, ascending in timestamp; the order among documents
\* with equal timestamps is not defined by the datastore
SortedByTimestamp(C) ==
    {f \in [DOMAIN C -> DOMAIN C] :
        /\ \A i, j \in DOMAIN C : i # j => f[i] # f[j]
        /\ \A i, j \in DOMAIN C :
              i < j => Rank(C[f[i]].timestamp) <= Rank(C[f[j]].timestamp)}

\* get_recent_messages(limit): the lists it can return, the first limit
\* documents of the sorted cursor, each turned into a ChatMessage
get_recent_messages(C, limit) ==
    {[i \in 1..Min(limit, Len(C)) |->
         ChatMessage(C[f[i]].message_id, C[f[i]].sender, C[f[i]].message,
                     C[f[i]].timestamp)] : f \in SortedByTimestamp(C)}

\* list r, taken from the documents of C, is oldest first and holds the
\* newest: no document of C is newer than the first entry of r without
\* being listed in r
NewestOldestFirst(C, r) ==
    /\ \A i, j \in DOMAIN r :
          i < j => Rank(r[i].timestamp) <= Rank(r[j].timestamp)
    /\ \A k \in DOMAIN C :
          (\A i \in DOMAIN r : r[i].message_id # C[k].message_id)
              => \A i \in DOMAIN r :
                    Rank(C[k].timestamp) <= Rank(r[i].timestamp)

\* C38: get_recent_messages(limit) returns the limit most recent messages
\* by timestamp, oldest first; with more than limit messages stored the
\* newest ones are returned.
C38_RecentAreNewest ==
    \A limit \in 1..MaxLimit :
        \A r \in get_recent_messages(chat_messages, limit) :
            /\ Len(r) = Min(limit, Len(chat_messages))
            /\ NewestOldestFirst(chat_messages, r)

====
